---- MODULE Spec2Model ----
(***************************************************************************)
(* Government project tracking (src/government.cpp).                       *)
(*                                                                         *)
(* A GovernmentProject holds a name, a department, a funded flag, a budget *)
(* and a completed flag, and owns an ordered list of ProjectAction         *)
(* objects.  GovernmentProject::process runs the actions in order on the   *)
(* project itself; ProjectRegistry::processAll runs process on every       *)
(* registered project in order.                                            *)
(*                                                                         *)
(* The two loops are modelled step by step: pc says which function the     *)
(* single thread is in, pidx is the cursor of processAll's loop and aidx   *)
(* the cursor of process's loop.  One execute() call, with every nested    *)
(* call a ConditionalApproval makes, is one step.                          *)
(*                                                                         *)
(* Budgets are doubles in the source.  The model keeps them as integers:   *)
(* every value the model uses is an integer of magnitude far below 2^53,   *)
(* where double addition and comparison are exact.                         *)
(***************************************************************************)
EXTENDS Integers, Sequences, FiniteSets

VARIABLES
    projects,     \* ProjectRegistry::projects, a sequence of project records
    pc,           \* "idle" | "processAll" | "process"
    pidx,         \* index of the project processAll / process is working on
    aidx,         \* index of the next action of process's loop
    caller,       \* who called process: "harness" | "processAll"
    constructed,  \* history: every project as its constructor left it
    calls         \* history: completed process calls, per project

vars == <<projects, pc, pidx, aidx, caller, constructed, calls>>

---------------------------------------------------------------------------
(* Bounds                                                                  *)

\* Most ProjectAction objects one project owns, inner actions included.
MaxObjects == 4
\* Most process calls one project goes through.
MaxCalls == 2
\* Most projects in the registry.
MaxProjects == 2

Adjustments == {-2, 1}
Thresholds == {1}
InitialBudgets == {0, 1}
NewDepartments == {"Urban Development"}

---------------------------------------------------------------------------
(* The action classes: constructors                                        *)

ApproveFunding == [kind |-> "ApproveFunding"]

AdjustBudget(adj) == [kind |-> "AdjustBudget", adjustment |-> adj]

CompleteProject == [kind |-> "CompleteProject"]

ConditionalApproval(act, budget) ==
    [kind |-> "ConditionalApproval", action |-> act, min_budget |-> budget]

DepartmentTransfer(dept) == [kind |-> "DepartmentTransfer", new_department |-> dept]

BudgetFreeze == [kind |-> "BudgetFreeze"]

GovernmentProject(name, dept, funded, budget_amount, acts) ==
    [project_name |-> name, department |-> dept, is_funded |-> funded,
     budget |-> budget_amount, is_completed |-> FALSE, actions |-> acts]

---------------------------------------------------------------------------
(* GovernmentProject accessors                                             *)

isFunded(project) == project.is_funded

getBudget(project) == project.budget

setFunded(project, funded) == [project EXCEPT !.is_funded = funded]

setBudget(project, amount) == [project EXCEPT !.budget = amount]

setCompleted(project, completed) == [project EXCEPT !.is_completed = completed]

setDepartment(project, dept) == [project EXCEPT !.department = dept]

---------------------------------------------------------------------------
(* execute() of every action class                                         *)

\* Variant: flips the flag instead of setting it.
ApproveFunding_executeToggle(self, project) == setFunded(project, ~isFunded(project))

ApproveFunding_execute(self, project) == setFunded(project, TRUE)

\* Variant: the budget is floored at zero.
AdjustBudget_executeFloored(self, project) ==
    setBudget(project, IF getBudget(project) + self.adjustment < 0
                          THEN 0 ELSE getBudget(project) + self.adjustment)

AdjustBudget_execute(self, project) ==
    setBudget(project, getBudget(project) + self.adjustment)

\* Variant: the funded check is missing.
CompleteProject_executeUnchecked(self, project) == setCompleted(project, TRUE)

\* Variant: completion also asks for a budget that is not negative.
CompleteProject_executeBudgeted(self, project) ==
    IF isFunded(project) /\ getBudget(project) >= 0
        THEN setCompleted(project, TRUE)
        ELSE project

CompleteProject_execute(self, project) ==
    IF isFunded(project) THEN setCompleted(project, TRUE) ELSE project

DepartmentTransfer_execute(self, project) ==
    setDepartment(project, self.new_department)

\* Variant: the freeze also withdraws the funding.
BudgetFreeze_executeDefunding(self, project) == setFunded(setBudget(project, 0), FALSE)

BudgetFreeze_execute(self, project) == setBudget(project, 0)

RECURSIVE execute(_, _)

\* Variant: the threshold comparison is strict.
ConditionalApproval_executeStrict(self, project) ==
    IF getBudget(project) > self.min_budget
        THEN execute(self.action, project)
        ELSE project

ConditionalApproval_execute(self, project) ==
    IF getBudget(project) >= self.min_budget
        THEN execute(self.action, project)
        ELSE project

\* The virtual call action->execute(project).
execute(action, project) ==
    CASE action.kind = "ApproveFunding" -> ApproveFunding_execute(action, project)
      [] action.kind = "AdjustBudget" -> AdjustBudget_execute(action, project)
      [] action.kind = "CompleteProject" -> CompleteProject_execute(action, project)
      [] action.kind = "ConditionalApproval" -> ConditionalApproval_execute(action, project)
      [] action.kind = "DepartmentTransfer" -> DepartmentTransfer_execute(action, project)
      [] action.kind = "BudgetFreeze" -> BudgetFreeze_execute(action, project)

\* GovernmentProject::process as a function: the loop from action i on.
RECURSIVE processFrom(_, _)
processFrom(project, i) ==
    IF i > Len(project.actions) THEN project
    ELSE processFrom(execute(project.actions[i], project), i + 1)

---------------------------------------------------------------------------
(* The inputs the model draws                                              *)

PlainActions ==
    {ApproveFunding, CompleteProject, BudgetFreeze}
        \cup {AdjustBudget(d) : d \in Adjustments}
        \cup {DepartmentTransfer(n) : n \in NewDepartments}

\* The actions made of exactly n objects: a plain action under n-1 wrappers.
RECURSIVE ActionsOfSize(_)
ActionsOfSize(n) ==
    IF n = 1 THEN PlainActions
    ELSE {ConditionalApproval(a, m) : a \in ActionsOfSize(n - 1), m \in Thresholds}

\* The action lists made of at most n objects.
RECURSIVE ActionLists(_)
ActionLists(n) ==
    {<<>>} \cup UNION {{<<a>> \o rest : a \in ActionsOfSize(s),
                                        rest \in ActionLists(n - s)} : s \in 1..n}

Projects ==
    {GovernmentProject("City Park", "Environment", f, b, acts) :
        f \in BOOLEAN, b \in InitialBudgets, acts \in ActionLists(MaxObjects)}

\* The eight projects the test scenarios of the source build.
TestProjects ==
    {GovernmentProject("River Bridge", "Transportation", FALSE, 1000000,
                       <<ApproveFunding, AdjustBudget(500000)>>),
     GovernmentProject("School Upgrade", "Education", TRUE, 800000,
                       <<AdjustBudget(-200000)>>),
     GovernmentProject("City Hospital", "Health", TRUE, 2000000,
                       <<CompleteProject>>),
     GovernmentProject("Highway Expansion", "Transportation", FALSE, 1200000,
                       <<ConditionalApproval(ApproveFunding, 1000000)>>),
     GovernmentProject("Airport Renovation", "Transportation", FALSE, 3000000,
                       <<ConditionalApproval(ApproveFunding, 5000000)>>),
     GovernmentProject("Central Library", "Culture", FALSE, 1250000,
                       <<ApproveFunding, AdjustBudget(750000), CompleteProject>>),
     GovernmentProject("City Park", "Environment", TRUE, 500000,
                       <<DepartmentTransfer("Urban Development")>>),
     GovernmentProject("National Museum", "Culture", TRUE, 3000000,
                       <<BudgetFreeze>>)}

---------------------------------------------------------------------------
(* Operations                                                              *)

\* registry.addProject(new GovernmentProject(...)): the project is a new
\* object, so it is none of the projects the registry already holds.
addProject(project) ==
    /\ pc = "idle"
    /\ Len(projects) < MaxProjects
    /\ \A i \in 1..Len(projects) : projects[i].project_name # project.project_name
    /\ projects' = Append(projects, project)
    /\ constructed' = Append(constructed, project)
    /\ calls' = Append(calls, 0)
    /\ UNCHANGED <<pc, pidx, aidx, caller>>

\* registry.processAll() is called: the loop starts at the first project.
processAll ==
    /\ pc = "idle"
    /\ Len(projects) > 0
    /\ \A i \in 1..Len(projects) : calls[i] < MaxCalls
    /\ pc' = "processAll"
    /\ pidx' = 1
    /\ UNCHANGED <<projects, aidx, caller, constructed, calls>>

\* processAll's loop body: project->process() on the next project.
processAllCall ==
    /\ pc = "processAll"
    /\ pidx <= Len(projects)
    /\ pc' = "process"
    /\ aidx' = 1
    /\ caller' = "processAll"
    /\ UNCHANGED <<projects, pidx, constructed, calls>>

\* processAll's loop is over: back to the harness.
processAllReturn ==
    /\ pc = "processAll"
    /\ pidx > Len(projects)
    /\ pc' = "idle"
    /\ pidx' = 0
    /\ UNCHANGED <<projects, aidx, caller, constructed, calls>>

\* project->process() called by the harness on a project it built.
process(i) ==
    /\ pc = "idle"
    /\ calls[i] < MaxCalls
    /\ pc' = "process"
    /\ pidx' = i
    /\ aidx' = 1
    /\ caller' = "harness"
    /\ UNCHANGED <<projects, constructed, calls>>

\* Variant: the loop runs the list from its end.
processStepBackwards ==
    /\ pc = "process"
    /\ aidx <= Len(projects[pidx].actions)
    /\ projects' = [projects EXCEPT
                      ![pidx] = execute(projects[pidx].actions[
                                    Len(projects[pidx].actions) - aidx + 1], projects[pidx])]
    /\ aidx' = aidx + 1
    /\ UNCHANGED <<pc, pidx, caller, constructed, calls>>

\* Variant: every action is executed on the first project of the registry.
processStepOnFirst ==
    /\ pc = "process"
    /\ aidx <= Len(projects[pidx].actions)
    /\ projects' = [projects EXCEPT
                      ![1] = execute(projects[pidx].actions[aidx], projects[1])]
    /\ aidx' = aidx + 1
    /\ UNCHANGED <<pc, pidx, caller, constructed, calls>>

\* Variant: an action that would leave a negative budget is refused.
processStepRejecting ==
    /\ pc = "process"
    /\ aidx <= Len(projects[pidx].actions)
    /\ execute(projects[pidx].actions[aidx], projects[pidx]).budget >= 0
    /\ projects' = [projects EXCEPT
                      ![pidx] = execute(projects[pidx].actions[aidx], projects[pidx])]
    /\ aidx' = aidx + 1
    /\ UNCHANGED <<pc, pidx, caller, constructed, calls>>

\* process's loop body: action->execute(*this) on the next action.
processStep ==
    /\ pc = "process"
    /\ aidx <= Len(projects[pidx].actions)
    /\ projects' = [projects EXCEPT
                      ![pidx] = execute(projects[pidx].actions[aidx], projects[pidx])]
    /\ aidx' = aidx + 1
    /\ UNCHANGED <<pc, pidx, caller, constructed, calls>>

\* Variant: the call uses the action list up.
processReturnConsuming ==
    /\ pc = "process"
    /\ aidx > Len(projects[pidx].actions)
    /\ calls' = [calls EXCEPT ![pidx] = @ + 1]
    /\ aidx' = 0
    /\ caller' = "harness"
    /\ IF caller = "processAll"
          THEN pc' = "processAll" /\ pidx' = pidx + 1
          ELSE pc' = "idle" /\ pidx' = 0
    /\ projects' = [projects EXCEPT ![pidx].actions = <<>>]
    /\ UNCHANGED constructed

\* process's loop is over: back to processAll's loop, or to the harness.
processReturn ==
    /\ pc = "process"
    /\ aidx > Len(projects[pidx].actions)
    /\ calls' = [calls EXCEPT ![pidx] = @ + 1]
    /\ aidx' = 0
    /\ caller' = "harness"
    /\ IF caller = "processAll"
          THEN pc' = "processAll" /\ pidx' = pidx + 1
          ELSE pc' = "idle" /\ pidx' = 0
    /\ UNCHANGED <<projects, constructed>>

Running ==
    \/ processAll
    \/ processAllCall
    \/ processAllReturn
    \/ \E i \in 1..Len(projects) : process(i)
    \/ processStep
    \/ processReturn

\* One project, built from any of the bounded inputs, in the registry.
Init ==
    /\ \E p \in Projects : projects = <<p>> /\ constructed = <<p>>
    /\ calls = <<0>>
    /\ pc = "idle"
    /\ pidx = 0
    /\ aidx = 0
    /\ caller = "harness"

Next == Running

Spec == Init /\ [][Next]_vars

\* An empty registry, filled with the projects of the test scenarios.
InitRegistry ==
    /\ projects = <<>>
    /\ constructed = <<>>
    /\ calls = <<>>
    /\ pc = "idle"
    /\ pidx = 0
    /\ aidx = 0
    /\ caller = "harness"

NextRegistry ==
    \/ \E p \in TestProjects : addProject(p)
    \/ Running

SpecRegistry == InitRegistry /\ [][NextRegistry]_vars

---------------------------------------------------------------------------
(* The contract of section 4.1, folded over an action list                 *)

\* The effect column of the per-variant table.
RECURSIVE Effect(_, _)
Effect(a, s) ==
    CASE a.kind = "ApproveFunding" -> [s EXCEPT !.is_funded = TRUE]
      [] a.kind = "AdjustBudget" -> [s EXCEPT !.budget = s.budget + a.adjustment]
      [] a.kind = "CompleteProject" ->
            IF s.is_funded THEN [s EXCEPT !.is_completed = TRUE] ELSE s
      [] a.kind = "ConditionalApproval" ->
            IF s.budget >= a.min_budget THEN Effect(a.action, s) ELSE s
      [] a.kind = "DepartmentTransfer" -> [s EXCEPT !.department = a.new_department]
      [] a.kind = "BudgetFreeze" -> [s EXCEPT !.budget = 0]

\* The left fold of Effect over the first n actions of acts, from s.
RECURSIVE FoldLeft(_, _, _)
FoldLeft(s, acts, n) ==
    IF n = 0 THEN s ELSE Effect(acts[n], FoldLeft(s, acts, n - 1))

\* acts concatenated with itself k times.
RECURSIVE Times(_, _)
Times(acts, k) == IF k = 0 THEN <<>> ELSE acts \o Times(acts, k - 1)

Registered == 1..Len(projects)

InProcess(i) == pc = "process" /\ pidx = i

\* The actions project i has run so far, since its construction.
Executed(i) ==
    LET acts == constructed[i].actions
    IN  Times(acts, calls[i]) \o
            (IF InProcess(i) THEN SubSeq(acts, 1, aidx - 1) ELSE <<>>)

\* A step of process's loop, and the action it executes.
Stepping == pc = "process" /\ pc' = "process" /\ aidx' = aidx + 1

Cur == constructed[pidx].actions[aidx]

---------------------------------------------------------------------------
(* C1: one call of process leaves the project in the state obtained by    *)
(* folding the per-variant effects left to right over its action list, in *)
(* insertion order, each action applied once and none skipped: during the *)
(* first call the project is the fold over the actions before the cursor, *)
(* and after it the fold over the whole list.                              *)
C1_ProcessIsLeftFold ==
    \A i \in Registered :
        LET c == constructed[i]
        IN  /\ (calls[i] = 0 /\ InProcess(i))
                => projects[i] = FoldLeft(c, c.actions, aidx - 1)
            /\ (calls[i] = 1 /\ ~InProcess(i))
                => projects[i] = FoldLeft(c, c.actions, Len(c.actions))

\* The multi-action scenario: approve, adjust, complete, all applied.
C1_Witness ==
    /\ pc = "idle"
    /\ calls = <<1>>
    /\ constructed[1].actions = <<ApproveFunding, AdjustBudget(1), CompleteProject>>
    /\ ~constructed[1].is_funded
    /\ projects[1].is_funded
    /\ projects[1].is_completed
    /\ projects[1].budget = constructed[1].budget + 1

---------------------------------------------------------------------------
(* C2: a ConditionalApproval applies its inner action exactly when the    *)
(* budget the project has when the ConditionalApproval executes is at     *)
(* least min: equal to min applies it, below min leaves the whole project *)
(* unchanged, whatever the inner action is, a nested ConditionalApproval  *)
(* included.                                                               *)
C2_ConditionalStep ==
    (Stepping /\ Cur.kind = "ConditionalApproval")
        => LET p == projects[pidx]
           IN  /\ p.budget >= Cur.min_budget => projects'[pidx] = Effect(Cur.action, p)
               /\ p.budget < Cur.min_budget => projects'[pidx] = p

C2_ConditionalInclusive == [][C2_ConditionalStep]_vars

\* A nested ConditionalApproval ran on a budget equal to both thresholds,
\* after an earlier action had raised the budget to it.
C2_Witness ==
    /\ pc = "process"
    /\ calls = <<0>>
    /\ aidx = 3
    /\ constructed[1].actions =
          <<AdjustBudget(1), ConditionalApproval(ConditionalApproval(ApproveFunding, 1), 1)>>
    /\ constructed[1].budget = 0
    /\ ~constructed[1].is_funded
    /\ projects[1].budget = 1
    /\ projects[1].is_funded

---------------------------------------------------------------------------
(* C3: CompleteProject sets completed exactly when the project is funded  *)
(* when it executes and otherwise changes nothing; on an unfunded project *)
(* ApproveFunding then CompleteProject yields funded and completed, and   *)
(* CompleteProject alone leaves completed false.                           *)
C3_CompleteStep ==
    (Stepping /\ Cur.kind = "CompleteProject")
        => LET p == projects[pidx]
           IN  projects'[pidx] =
                  IF p.is_funded THEN [p EXCEPT !.is_completed = TRUE] ELSE p

C3_Scenarios ==
    \A i \in Registered :
        LET c == constructed[i]
        IN  ~c.is_funded =>
              /\ (c.actions = <<ApproveFunding, CompleteProject>> /\ calls[i] >= 1)
                    => projects[i].is_funded /\ projects[i].is_completed
              /\ c.actions = <<CompleteProject>> => ~projects[i].is_completed

C3_CompleteNeedsFunding == []C3_Scenarios /\ [][C3_CompleteStep]_vars

\* CompleteProject ran on an unfunded project and left it incomplete.
C3_Witness ==
    /\ pc = "idle"
    /\ calls = <<1>>
    /\ constructed[1].actions = <<CompleteProject>>
    /\ ~constructed[1].is_funded
    /\ ~projects[1].is_completed

---------------------------------------------------------------------------
(* C4: processAll processes the projects independently: at every moment   *)
(* every project of the registry is in the state its own constructed      *)
(* state and its own action list determine (the fold over the actions it  *)
(* has itself run), wherever it stands in the registry and whatever the   *)
(* other projects are, so the order in which they were added changes no   *)
(* project's result and no project is changed by another's processing.    *)
C4_ProjectsIndependent ==
    \A i \in Registered :
        LET done == Executed(i)
        IN  projects[i] = FoldLeft(constructed[i], done, Len(done))

\* Two test projects, both processed, each with the result of its own
\* scenario: the second one's actions have not touched the first.
C4_Witness ==
    /\ pc = "idle"
    /\ Len(projects) = 2
    /\ calls = <<1, 1>>
    /\ projects[1].project_name = "School Upgrade"
    /\ projects[1].budget = 600000
    /\ projects[2].project_name = "River Bridge"
    /\ projects[2].budget = 1500000
    /\ projects[2].is_funded

---------------------------------------------------------------------------
(* C5: k calls of process re-apply the whole action list k times: the     *)
(* project is the left fold over the list concatenated with itself k      *)
(* times (and over the actions before the cursor of a call in progress),  *)
(* the list itself is never consumed or altered, and a list whose only    *)
(* budget-changing actions are AdjustBudget actions of the list (no       *)
(* BudgetFreeze, none under a ConditionalApproval) moves the budget by    *)
(* their sum on every call.                                                *)
RECURSIVE ChangesBudget(_)
ChangesBudget(a) ==
    \/ a.kind \in {"AdjustBudget", "BudgetFreeze"}
    \/ a.kind = "ConditionalApproval" /\ ChangesBudget(a.action)

OnlyAdjusts(acts) ==
    \A n \in 1..Len(acts) : ChangesBudget(acts[n]) => acts[n].kind = "AdjustBudget"

RECURSIVE SumAdjustments(_, _)
SumAdjustments(acts, n) ==
    IF n = 0 THEN 0
    ELSE SumAdjustments(acts, n - 1)
            + (IF acts[n].kind = "AdjustBudget" THEN acts[n].adjustment ELSE 0)

---------------------------------------------------------------------------
(* C6: whether an AdjustBudget action of the list runs before or after a  *)
(* CompleteProject action of the list does not change the completed flag  *)
(* process produces.                                                       *)

\* acts with the action at index i taken out and put back at index j.
Moved(acts, i, j) ==
    IF i < j
        THEN SubSeq(acts, 1, i - 1) \o SubSeq(acts, i + 1, j) \o <<acts[i]>>
                \o SubSeq(acts, j + 1, Len(acts))
        ELSE SubSeq(acts, 1, j - 1) \o <<acts[i]>> \o SubSeq(acts, j, i - 1)
                \o SubSeq(acts, i + 1, Len(acts))

\* The lists that differ from acts only in that one AdjustBudget action
\* has moved to the other side of one CompleteProject action.
AdjustMovedAcrossComplete(acts) ==
    {Moved(acts, i, j) : <<i, j>> \in
        {ij \in (1..Len(acts)) \X (1..Len(acts)) :
            /\ acts[ij[1]].kind = "AdjustBudget"
            /\ acts[ij[2]].kind = "CompleteProject"}}

HasConditional(acts) ==
    \E n \in 1..Len(acts) : acts[n].kind = "ConditionalApproval"

\* The completed flag of the first call is the one process produces on
\* every such rearranged list.
OrderIrrelevant(i) ==
    LET c == constructed[i]
    IN  \A other \in AdjustMovedAcrossComplete(c.actions) :
            projects[i].is_completed =
                processFrom([c EXCEPT !.actions = other], 1).is_completed

\* The claim as stated, for any action list.
C6_Original ==
    \A i \in Registered :
        (calls[i] = 1 /\ ~InProcess(i)) => OrderIrrelevant(i)

\* C6, amended: for any action list that holds no ConditionalApproval,
\* whether an AdjustBudget action runs before or after a CompleteProject
\* action does not change the completed flag process produces.
C6_BudgetOrderWithoutConditional ==
    \A i \in Registered :
        (calls[i] = 1 /\ ~InProcess(i) /\ ~HasConditional(constructed[i].actions))
            => OrderIrrelevant(i)

\* A funded project was completed by a list in which AdjustBudget(-2) runs
\* before CompleteProject and leaves the budget negative.
C6_Witness ==
    /\ pc = "idle"
    /\ calls = <<1>>
    /\ constructed[1].actions = <<AdjustBudget(-2), CompleteProject>>
    /\ constructed[1].is_funded
    /\ projects[1].budget < 0
    /\ projects[1].is_completed

---------------------------------------------------------------------------
(* C7: no variant has a failure path and processing always terminates:    *)
(* inside processAll or process a next step is always possible, every     *)
(* step uses up one of the finitely many steps that remain, and every     *)
(* project stays a well-formed project whatever its budget, funded flag   *)
(* and department are.                                                     *)
WellFormed(p) ==
    /\ DOMAIN p = {"project_name", "department", "is_funded", "budget",
                   "is_completed", "actions"}
    /\ p.is_funded \in BOOLEAN
    /\ p.is_completed \in BOOLEAN
    /\ p.budget \in Int

\* The steps process has left on project i from action index n on.
StepsOfProcess(i, n) == (Len(constructed[i].actions) - n + 1) + 1

RECURSIVE StepsOfProjects(_)
StepsOfProjects(i) ==
    IF i > Len(projects) THEN 1
    ELSE 1 + StepsOfProcess(i, 1) + StepsOfProjects(i + 1)

StepsLeft ==
    CASE pc = "idle" -> 0
      [] pc = "processAll" -> StepsOfProjects(pidx)
      [] pc = "process" ->
            StepsOfProcess(pidx, aidx)
                + (IF caller = "processAll" THEN StepsOfProjects(pidx + 1) ELSE 0)

C7_Total ==
    /\ \A i \in Registered : WellFormed(projects[i])
    /\ pc # "idle" => ENABLED Running
    /\ StepsLeft >= 0

C7_Progress == pc # "idle" => StepsLeft' = StepsLeft - 1

C7_NoFailurePath == []C7_Total /\ [][C7_Progress]_vars

\* A call is under way on a project whose budget has gone negative, and
\* the loop goes on.
C7_Witness ==
    /\ pc = "process"
    /\ aidx = 2
    /\ constructed[1].actions =
          <<AdjustBudget(-2), ConditionalApproval(ConditionalApproval(BudgetFreeze, 1), 1)>>
    /\ projects[1].budget < 0
    /\ ENABLED processStep

---------------------------------------------------------------------------
(* C8: AdjustBudget(d) sets the budget to budget + d for positive and     *)
(* negative d alike, with no floor: a result below zero is kept.  So      *)
(* 1,000,000 + 500,000 = 1,500,000 and 800,000 - 200,000 = 600,000.       *)
C8_AdjustStep ==
    (Stepping /\ Cur.kind = "AdjustBudget")
        => projects'[pidx].budget = projects[pidx].budget + Cur.adjustment

C8_Examples ==
    /\ AdjustBudget_execute(AdjustBudget(500000),
          GovernmentProject("River Bridge", "Transportation", FALSE, 1000000, <<>>)).budget
            = 1500000
    /\ AdjustBudget_execute(AdjustBudget(-200000),
          GovernmentProject("School Upgrade", "Education", TRUE, 800000, <<>>)).budget
            = 600000

C8_AdjustBudgetNoFloor == []C8_Examples /\ [][C8_AdjustStep]_vars

\* AdjustBudget(-2) has just run on a budget of 1 and left it at -1.
C8_Witness ==
    /\ pc = "process"
    /\ calls = <<0>>
    /\ aidx = 2
    /\ constructed[1].actions[1] = AdjustBudget(-2)
    /\ constructed[1].budget = 1
    /\ projects[1].budget = -1

---------------------------------------------------------------------------
(* C9: a plain action changes only its own field: ApproveFunding at most  *)
(* funded, AdjustBudget and BudgetFreeze at most budget (BudgetFreeze     *)
(* leaving 0), CompleteProject at most completed, DepartmentTransfer at   *)
(* most department, which it overwrites with its name; and no action,     *)
(* wrapper or not, changes the project's name or its action list.          *)
OwnField(kind) ==
    CASE kind = "ApproveFunding" -> "is_funded"
      [] kind = "AdjustBudget" -> "budget"
      [] kind = "BudgetFreeze" -> "budget"
      [] kind = "CompleteProject" -> "is_completed"
      [] kind = "DepartmentTransfer" -> "department"

C9_FrameStep ==
    Stepping =>
        LET p == projects[pidx]
            q == projects'[pidx]
        IN  /\ q.project_name = p.project_name
            /\ q.actions = p.actions
            /\ Cur.kind # "ConditionalApproval" =>
                  \A f \in DOMAIN p \ {OwnField(Cur.kind)} : q[f] = p[f]
            /\ Cur.kind = "DepartmentTransfer" => q.department = Cur.new_department
            /\ Cur.kind = "BudgetFreeze" => q.budget = 0

C9_OwnFieldOnly == [][C9_FrameStep]_vars

\* BudgetFreeze has just run on a funded, completed project with a
\* budget, and only the budget is gone.
C9_Witness ==
    /\ pc = "process"
    /\ aidx = 4
    /\ constructed[1].actions = <<CompleteProject, AdjustBudget(1), BudgetFreeze>>
    /\ constructed[1].is_funded
    /\ projects[1].is_funded
    /\ projects[1].is_completed
    /\ projects[1].budget = 0

---------------------------------------------------------------------------
(* C10: without the setters being called from outside, completed implies  *)
(* funded in every reachable state, a project is constructed with         *)
(* completed false, and funded and completed never go back to false.      *)
C10_State ==
    \A i \in Registered :
        /\ projects[i].is_completed => projects[i].is_funded
        /\ ~constructed[i].is_completed

C10_Monotone ==
    \A i \in Registered :
        /\ projects[i].is_funded => projects'[i].is_funded
        /\ projects[i].is_completed => projects'[i].is_completed

C10_CompletedImpliesFunded == []C10_State /\ [][C10_Monotone]_vars

\* A project built unfunded is funded and completed, and a second call
\* is re-applying its actions.
C10_Witness ==
    /\ pc = "process"
    /\ calls = <<1>>
    /\ aidx = 2
    /\ ~constructed[1].is_funded
    /\ projects[1].is_funded
    /\ projects[1].is_completed

====
